---- MODULE Spec2Model ----
(***************************************************************************)
(* Password-recovery wizard (pages/ForgotPassword.tsx) and the HTTP client *)
(* request interceptor (api/axiosConfig).                                  *)
(*                                                                         *)
(* One mounted instance of the ForgotPassword component is modelled.  The  *)
(* React state cells are the variables; every event handler and every      *)
(* promise continuation (the code after an await, with its catch and       *)
(* finally blocks) is one atomic action, as they are on the browser's      *)
(* event loop.  A handler's continuation reads the values its closure      *)
(* captured when the handler was called; those values travel with the      *)
(* request in flight.                                                      *)
(*                                                                         *)
(* Text the code measures or converts (telegramId, newPassword,            *)
(* confirmPassword) is a tuple of one-character strings; text the code     *)
(* only passes on (code, oldPassword, messages, tokens) is a string.       *)
(***************************************************************************)
EXTENDS Naturals, Sequences, FiniteSets, TLC

VARIABLES
    telegramId,       \* useState('')            line 18
    code,             \* useState('')            line 19
    newPassword,      \* useState('')            line 20
    confirmPassword,  \* useState('')            line 21
    oldPassword,      \* useState('')            line 22
    error,            \* useState('')            line 23
    success,          \* useState('')            line 24
    loading,          \* useState(false)         line 25
    codeSent,         \* useState(false)         line 26
    useOldPassword,   \* useState(false)         line 27
    recoveryOptions,  \* useState(null)          line 30
    selectedMethod,   \* useState(null)          line 31
    optionsLoading,   \* useState(false)         line 32
    pending,          \* requests in flight (issued, neither resolved nor rejected), in issue order
    navTimers,        \* setTimeout(() => navigate('/login'), 2000) callbacks not yet run
    location,         \* the route displayed by the router
    accessToken       \* localStorage item 'accessToken'

vars == <<telegramId, code, newPassword, confirmPassword, oldPassword, error,
          success, loading, codeSent, useOldPassword, recoveryOptions,
          selectedMethod, optionsLoading, pending, navTimers, location,
          accessToken>>

fields == <<telegramId, code, newPassword, confirmPassword, oldPassword>>

(***************************************************************************)
(* Bounds and input sets                                                   *)
(***************************************************************************)
\* Most navigation timers that may be waiting at once.
MaxTimers == 1

\* null as a string-or-null value, and null as an object-or-null value.
Null == "null"
NullObject == << >>
\* A JavaScript number: a natural number, or NaN.
Num(n) == [nan |-> FALSE, value |-> n]
NaN == [nan |-> TRUE, value |-> 0]
MinPasswordLength == 6

TelegramIds == { <<>>, <<"0", "7">> }
Passwords == { <<>>, <<"a", "b", "c", "1", "2">>, <<"a", "b", "c", "1", "2", "3">> }
Codes == { "", "0042" }
OldPasswords == { "", "hunter2" }
Tokens == { Null, "", "tokA" }
ServerErrors == { Null, "", "Invalid code" }
OptionsResponses ==
    { [telegram |-> tg, email |-> em,
       emailMasked |-> IF em THEN "a***@b.com" ELSE Null] : tg, em \in BOOLEAN }

(***************************************************************************)
(* Pure helpers                                                            *)
(***************************************************************************)
\* useLanguage().t: the localized string of a key.
t(key) == "t:" \o key

Digits == <<"0", "1", "2", "3", "4", "5", "6", "7", "8", "9">>

IsDigit(c) == \E i \in 1..10 : Digits[i] = c

DigitVal(c) == (CHOOSE i \in 1..10 : Digits[i] = c) - 1

RECURSIVE DecimalValue(_)
DecimalValue(s) ==
    IF s = <<>> THEN 0
    ELSE 10 * DecimalValue(SubSeq(s, 1, Len(s) - 1)) + DigitVal(s[Len(s)])

\* parseInt-like reading: the empty string is NaN, not 0.
Number_ParseInt(s) ==
    IF s # <<>> /\ \A i \in 1..Len(s) : IsDigit(s[i]) THEN Num(DecimalValue(s))
    ELSE NaN

\* JavaScript Number(string) on digit-and-letter text: the empty string is 0,
\* a run of decimal digits is its value, anything else is NaN.
Number(s) ==
    IF s = <<>> THEN Num(0)
    ELSE IF \A i \in 1..Len(s) : IsDigit(s[i]) THEN Num(DecimalValue(s))
    ELSE NaN

\* JavaScript truthiness of a string-or-null value.
Truthy(v) == v # Null /\ v # ""

\* error.response?.data?.error || t('forgotPassword.errors.resetFailed')
ErrorMessage(serverError) ==
    IF Truthy(serverError) THEN serverError
    ELSE t("forgotPassword.errors.resetFailed")

\* The token tested against null only: an empty stored value gets a header.
Interceptor_NullCheck(config, token) ==
    IF token # Null
    THEN [config EXCEPT !.headers =
            [h \in (DOMAIN config.headers) \cup {"Authorization"} |->
                IF h = "Authorization" THEN "Bearer " \o token
                ELSE config.headers[h]]]
    ELSE config

\* The request interceptor: config with the Authorization header set when the
\* stored token is truthy, config itself otherwise.
Interceptor(config, token) ==
    IF Truthy(token)
    THEN [config EXCEPT !.headers =
            [h \in (DOMAIN config.headers) \cup {"Authorization"} |->
                IF h = "Authorization" THEN "Bearer " \o token
                ELSE config.headers[h]]]
    ELSE config

\* apiClient.post(url, data): the request the transport sends, after the
\* request interceptor has run on it.
Post(url, data) ==
    Interceptor([url |-> url, data |-> data, headers |-> NullObject], accessToken)

RemoveAt(s, i) == SubSeq(s, 1, i - 1) \o SubSeq(s, i + 1, Len(s))

\* Which branch of the render's nested conditional is displayed.
Step ==
    IF location # "/forgot-password" THEN "Unmounted"
    ELSE IF recoveryOptions = NullObject /\ ~useOldPassword THEN "Identify"
    ELSE IF recoveryOptions # NullObject /\ selectedMethod = Null
         THEN "ChooseChannel"
    ELSE IF recoveryOptions # NullObject /\ selectedMethod # Null /\ ~codeSent
         THEN "RequestCode"
    ELSE "SubmitNewPassword"

(***************************************************************************)
(* Initial state                                                           *)
(***************************************************************************)
Init ==
    /\ telegramId = <<>>
    /\ code = ""
    /\ newPassword = <<>>
    /\ confirmPassword = <<>>
    /\ oldPassword = ""
    /\ error = ""
    /\ success = ""
    /\ loading = FALSE
    /\ codeSent = FALSE
    /\ useOldPassword = FALSE
    /\ recoveryOptions = NullObject
    /\ selectedMethod = Null
    /\ optionsLoading = FALSE
    /\ pending = <<>>
    /\ navTimers = 0
    /\ location = "/forgot-password"
    /\ accessToken \in Tokens

(***************************************************************************)
(* User input: the onChange handlers of the inputs a step displays         *)
(***************************************************************************)
\* The telegramId input is rendered by step 1 and, on the old-password
\* path, by step 4.
SetTelegramId(v) ==
    /\ Step = "Identify" \/ (Step = "SubmitNewPassword" /\ useOldPassword)
    /\ v # telegramId
    /\ telegramId' = v
    /\ UNCHANGED <<code, newPassword, confirmPassword, oldPassword, error,
                   success, loading, codeSent, useOldPassword, recoveryOptions,
                   selectedMethod, optionsLoading, pending, navTimers,
                   location, accessToken>>

SetCode(v) ==
    /\ Step = "SubmitNewPassword" /\ ~useOldPassword
    /\ v # code
    /\ code' = v
    /\ UNCHANGED <<telegramId, newPassword, confirmPassword, oldPassword, error,
                   success, loading, codeSent, useOldPassword, recoveryOptions,
                   selectedMethod, optionsLoading, pending, navTimers,
                   location, accessToken>>

SetOldPassword(v) ==
    /\ Step = "SubmitNewPassword" /\ useOldPassword
    /\ v # oldPassword
    /\ oldPassword' = v
    /\ UNCHANGED <<telegramId, code, newPassword, confirmPassword, error,
                   success, loading, codeSent, useOldPassword, recoveryOptions,
                   selectedMethod, optionsLoading, pending, navTimers,
                   location, accessToken>>

SetNewPassword(v) ==
    /\ Step = "SubmitNewPassword"
    /\ v # newPassword
    /\ newPassword' = v
    /\ UNCHANGED <<telegramId, code, confirmPassword, oldPassword, error,
                   success, loading, codeSent, useOldPassword, recoveryOptions,
                   selectedMethod, optionsLoading, pending, navTimers,
                   location, accessToken>>

SetConfirmPassword(v) ==
    /\ Step = "SubmitNewPassword"
    /\ v # confirmPassword
    /\ confirmPassword' = v
    /\ UNCHANGED <<telegramId, code, newPassword, oldPassword, error,
                   success, loading, codeSent, useOldPassword, recoveryOptions,
                   selectedMethod, optionsLoading, pending, navTimers,
                   location, accessToken>>

(***************************************************************************)
(* Step 1: Identify                                                        *)
(***************************************************************************)
\* handleCheckOptions up to its await.  The submit button is disabled while
\* optionsLoading.
handleCheckOptions ==
    /\ Step = "Identify"
    /\ ~optionsLoading
    /\ error' = ""
    /\ optionsLoading' = TRUE
    /\ pending' = Append(pending,
                         Post("/auth/recovery-options",
                              [telegramId |-> Number(telegramId)]))
    /\ UNCHANGED <<fields, success, loading, codeSent, useOldPassword,
                   recoveryOptions, selectedMethod, navTimers, location,
                   accessToken>>

\* The else-if branch that selects 'email' left out.
CheckOptionsResolve_NoEmailAuto(i, data) ==
    /\ pending[i].url = "/auth/recovery-options"
    /\ recoveryOptions' = data
    /\ selectedMethod' =
          IF data.telegram /\ ~data.email THEN "telegram" ELSE selectedMethod
    /\ optionsLoading' = FALSE
    /\ pending' = RemoveAt(pending, i)
    /\ UNCHANGED <<fields, error, success, loading, codeSent, useOldPassword,
                   navTimers, location, accessToken>>

\* handleCheckOptions from its await on, the call having resolved with data.
CheckOptionsResolve(i, data) ==
    /\ pending[i].url = "/auth/recovery-options"
    /\ recoveryOptions' = data
    /\ selectedMethod' =
          IF data.telegram /\ ~data.email THEN "telegram"
          ELSE IF ~data.telegram /\ data.email THEN "email"
          ELSE selectedMethod
    /\ optionsLoading' = FALSE
    /\ pending' = RemoveAt(pending, i)
    /\ UNCHANGED <<fields, error, success, loading, codeSent, useOldPassword,
                   navTimers, location, accessToken>>

\* The finally block left out: optionsLoading stays raised.
CheckOptionsReject_NoFinally(i, serverError) ==
    /\ pending[i].url = "/auth/recovery-options"
    /\ error' = ErrorMessage(serverError)
    /\ pending' = RemoveAt(pending, i)
    /\ UNCHANGED <<fields, success, loading, codeSent, useOldPassword,
                   recoveryOptions, selectedMethod, optionsLoading, navTimers,
                   location, accessToken>>

\* handleCheckOptions from its await on, the call having been rejected.
CheckOptionsReject(i, serverError) ==
    /\ pending[i].url = "/auth/recovery-options"
    /\ error' = ErrorMessage(serverError)
    /\ optionsLoading' = FALSE
    /\ pending' = RemoveAt(pending, i)
    /\ UNCHANGED <<fields, success, loading, codeSent, useOldPassword,
                   recoveryOptions, selectedMethod, navTimers, location,
                   accessToken>>

\* The "use old password" button of step 1.
UseOldPasswordClick ==
    /\ Step = "Identify"
    /\ useOldPassword' = TRUE
    /\ UNCHANGED <<fields, error, success, loading, codeSent, recoveryOptions,
                   selectedMethod, optionsLoading, pending, navTimers,
                   location, accessToken>>

(***************************************************************************)
(* Step 2: Choose Channel                                                  *)
(***************************************************************************)
\* The Telegram button is always rendered, the Email button only when
\* recoveryOptions.email.
SelectMethod(m) ==
    /\ Step = "ChooseChannel"
    /\ m = "telegram" \/ (m = "email" /\ recoveryOptions.email)
    /\ selectedMethod' = m
    /\ UNCHANGED <<fields, error, success, loading, codeSent, useOldPassword,
                   recoveryOptions, optionsLoading, pending, navTimers,
                   location, accessToken>>

\* The cancel button of step 2.
resetState ==
    /\ Step = "ChooseChannel"
    /\ recoveryOptions' = NullObject
    /\ selectedMethod' = Null
    /\ codeSent' = FALSE
    /\ code' = ""
    /\ error' = ""
    /\ success' = ""
    /\ UNCHANGED <<telegramId, newPassword, confirmPassword, oldPassword,
                   loading, useOldPassword, optionsLoading, pending, navTimers,
                   location, accessToken>>

(***************************************************************************)
(* Step 3: Request Code                                                    *)
(***************************************************************************)
\* setLoading(true) left out.
handleRequestCode_NoBusy ==
    /\ Step = "RequestCode"
    /\ ~loading
    /\ error' = ""
    /\ success' = ""
    /\ pending' = Append(pending,
                         Post("/auth/forgot-password",
                              [telegramId |-> Number(telegramId),
                               method |-> selectedMethod]))
    /\ UNCHANGED <<fields, loading, codeSent, useOldPassword, recoveryOptions,
                   selectedMethod, optionsLoading, navTimers, location,
                   accessToken>>

\* handleRequestCode up to its await.  The button is disabled while loading.
handleRequestCode ==
    /\ Step = "RequestCode"
    /\ ~loading
    /\ error' = ""
    /\ success' = ""
    /\ loading' = TRUE
    /\ pending' = Append(pending,
                         Post("/auth/forgot-password",
                              [telegramId |-> Number(telegramId),
                               method |-> selectedMethod]))
    /\ UNCHANGED <<fields, codeSent, useOldPassword, recoveryOptions,
                   selectedMethod, optionsLoading, navTimers, location,
                   accessToken>>

\* handleRequestCode from its await on, resolved.  selectedMethod here is the
\* value the handler's closure captured: the one sent in the request.
RequestCodeResolve(i) ==
    /\ pending[i].url = "/auth/forgot-password"
    /\ codeSent' = TRUE
    /\ success' = IF pending[i].data.method = "email"
                  THEN t("forgotPassword.codeSentEmail")
                  ELSE t("forgotPassword.codeSent")
    /\ loading' = FALSE
    /\ pending' = RemoveAt(pending, i)
    /\ UNCHANGED <<fields, error, useOldPassword, recoveryOptions,
                   selectedMethod, optionsLoading, navTimers, location,
                   accessToken>>

\* The finally block left out: loading stays raised.
RequestCodeReject_NoFinally(i, serverError) ==
    /\ pending[i].url = "/auth/forgot-password"
    /\ error' = ErrorMessage(serverError)
    /\ pending' = RemoveAt(pending, i)
    /\ UNCHANGED <<fields, success, loading, codeSent, useOldPassword,
                   recoveryOptions, selectedMethod, optionsLoading, navTimers,
                   location, accessToken>>

\* handleRequestCode from its await on, rejected.
RequestCodeReject(i, serverError) ==
    /\ pending[i].url = "/auth/forgot-password"
    /\ error' = ErrorMessage(serverError)
    /\ loading' = FALSE
    /\ pending' = RemoveAt(pending, i)
    /\ UNCHANGED <<fields, success, codeSent, useOldPassword, recoveryOptions,
                   selectedMethod, optionsLoading, navTimers, location,
                   accessToken>>

\* The "change method" button of step 3.
ChangeMethod ==
    /\ Step = "RequestCode"
    /\ selectedMethod' = Null
    /\ UNCHANGED <<fields, error, success, loading, codeSent, useOldPassword,
                   recoveryOptions, optionsLoading, pending, navTimers,
                   location, accessToken>>

(***************************************************************************)
(* Step 4: Submit New Password                                             *)
(***************************************************************************)
\* The comparison with confirmPassword left out.
ValidationError_NoMismatch ==
    IF Len(newPassword) < MinPasswordLength
    THEN t("forgotPassword.errors.tooShort")
    ELSE ""

\* The length compared one too low: five characters pass.
ValidationError_OffByOne ==
    IF newPassword # confirmPassword
    THEN t("forgotPassword.errors.mismatch")
    ELSE IF Len(newPassword) + 1 < MinPasswordLength
    THEN t("forgotPassword.errors.tooShort")
    ELSE ""

\* The client-side validation of handleResetPassword: the message of the
\* first check that fails, '' when both pass.
ValidationError ==
    IF newPassword # confirmPassword
    THEN t("forgotPassword.errors.mismatch")
    ELSE IF Len(newPassword) < MinPasswordLength
    THEN t("forgotPassword.errors.tooShort")
    ELSE ""

\* The code endpoint called on both paths.
ResetRequest_AlwaysCode ==
    Post("/auth/reset-password",
         [telegramId |-> Number(telegramId),
          code |-> code,
          newPassword |-> newPassword])

\* The call handleResetPassword makes inside its try block.
ResetRequest ==
    IF useOldPassword
    THEN Post("/auth/reset-password-with-old",
              [telegramId |-> Number(telegramId),
               oldPassword |-> oldPassword,
               newPassword |-> newPassword])
    ELSE Post("/auth/reset-password",
              [telegramId |-> Number(telegramId),
               code |-> code,
               newPassword |-> newPassword])

\* handleResetPassword up to its first return or its await.  The submit
\* button is disabled while loading.
handleResetPassword ==
    /\ Step = "SubmitNewPassword"
    /\ ~loading
    /\ navTimers < MaxTimers
    /\ success' = ""
    /\ error' = ValidationError
    /\ IF ValidationError # ""
       THEN UNCHANGED <<loading, pending>>
       ELSE /\ loading' = TRUE
            /\ pending' = Append(pending, ResetRequest)
    /\ UNCHANGED <<fields, codeSent, useOldPassword, recoveryOptions,
                   selectedMethod, optionsLoading, navTimers, location,
                   accessToken>>

ResetUrls == { "/auth/reset-password", "/auth/reset-password-with-old" }

\* handleResetPassword from its await on, resolved: the success message is
\* set and the navigation timer started.
ResetResolve(i) ==
    /\ pending[i].url \in ResetUrls
    /\ success' = t("forgotPassword.passwordReset")
    /\ navTimers' = navTimers + 1
    /\ loading' = FALSE
    /\ pending' = RemoveAt(pending, i)
    /\ UNCHANGED <<fields, error, codeSent, useOldPassword, recoveryOptions,
                   selectedMethod, optionsLoading, location, accessToken>>

\* The navigation timer started in the finally block: also after a rejection.
ResetReject_NavInFinally(i, serverError) ==
    /\ pending[i].url \in ResetUrls
    /\ error' = ErrorMessage(serverError)
    /\ navTimers' = navTimers + 1
    /\ loading' = FALSE
    /\ pending' = RemoveAt(pending, i)
    /\ UNCHANGED <<fields, success, codeSent, useOldPassword, recoveryOptions,
                   selectedMethod, optionsLoading, location, accessToken>>

\* handleResetPassword from its await on, rejected.
ResetReject(i, serverError) ==
    /\ pending[i].url \in ResetUrls
    /\ error' = ErrorMessage(serverError)
    /\ loading' = FALSE
    /\ pending' = RemoveAt(pending, i)
    /\ UNCHANGED <<fields, success, codeSent, useOldPassword, recoveryOptions,
                   selectedMethod, optionsLoading, navTimers, location,
                   accessToken>>

\* The form reset as a whole on the code path: the passwords cleared too.
Back_ClearsPasswords ==
    /\ Step = "SubmitNewPassword"
    /\ IF useOldPassword
       THEN /\ useOldPassword' = FALSE
            /\ oldPassword' = ""
            /\ UNCHANGED <<codeSent, code, newPassword, confirmPassword>>
       ELSE /\ codeSent' = FALSE
            /\ code' = ""
            /\ newPassword' = <<>>
            /\ confirmPassword' = <<>>
            /\ UNCHANGED <<useOldPassword, oldPassword>>
    /\ error' = ""
    /\ success' = ""
    /\ UNCHANGED <<telegramId, loading, recoveryOptions, selectedMethod,
                   optionsLoading, pending, navTimers, location, accessToken>>

\* The back button of step 4.
Back ==
    /\ Step = "SubmitNewPassword"
    /\ IF useOldPassword
       THEN /\ useOldPassword' = FALSE
            /\ oldPassword' = ""
            /\ UNCHANGED <<codeSent, code>>
       ELSE /\ codeSent' = FALSE
            /\ code' = ""
            /\ UNCHANGED <<useOldPassword, oldPassword>>
    /\ error' = ""
    /\ success' = ""
    /\ UNCHANGED <<telegramId, newPassword, confirmPassword, loading,
                   recoveryOptions, selectedMethod, optionsLoading, pending,
                   navTimers, location, accessToken>>

(***************************************************************************)
(* Navigation and local storage                                            *)
(***************************************************************************)
\* The timer callback: navigate('/login').
TimerFire ==
    /\ navTimers > 0
    /\ navTimers' = navTimers - 1
    /\ location' = "/login"
    /\ UNCHANGED <<fields, error, success, loading, codeSent, useOldPassword,
                   recoveryOptions, selectedMethod, optionsLoading, pending,
                   accessToken>>

\* The "back to login" link under the form.
LinkToLogin ==
    /\ location = "/forgot-password"
    /\ location' = "/login"
    /\ UNCHANGED <<fields, error, success, loading, codeSent, useOldPassword,
                   recoveryOptions, selectedMethod, optionsLoading, pending,
                   navTimers, accessToken>>

\* The rest of the application storing or removing the access token.
StorageWrite(token) ==
    /\ token # accessToken
    /\ accessToken' = token
    /\ UNCHANGED <<fields, error, success, loading, codeSent, useOldPassword,
                   recoveryOptions, selectedMethod, optionsLoading, pending,
                   navTimers, location>>

(***************************************************************************)
(* Specification                                                           *)
(***************************************************************************)
UserInput ==
    \/ \E v \in TelegramIds : SetTelegramId(v)
    \/ \E v \in Codes : SetCode(v)
    \/ \E v \in OldPasswords : SetOldPassword(v)
    \/ \E v \in Passwords : SetNewPassword(v)
    \/ \E v \in Passwords : SetConfirmPassword(v)

Responses ==
    \E i \in 1..Len(pending) :
        \/ \E data \in OptionsResponses : CheckOptionsResolve(i, data)
        \/ \E e \in ServerErrors : CheckOptionsReject(i, e)
        \/ RequestCodeResolve(i)
        \/ \E e \in ServerErrors : RequestCodeReject(i, e)
        \/ ResetResolve(i)
        \/ \E e \in ServerErrors : ResetReject(i, e)

Next ==
    \/ UserInput
    \/ handleCheckOptions
    \/ UseOldPasswordClick
    \/ \E m \in {"telegram", "email"} : SelectMethod(m)
    \/ resetState
    \/ handleRequestCode
    \/ ChangeMethod
    \/ handleResetPassword
    \/ Back
    \/ Responses
    \/ TimerFire
    \/ LinkToLogin
    \/ \E tok \in Tokens : StorageWrite(tok)

Spec == Init /\ [][Next]_vars

\* The timer callback runs once its delay has passed.
LiveSpec == Spec /\ WF_vars(TimerFire)

(***************************************************************************)
(* Properties                                                              *)
(***************************************************************************)
\* The requests a step issues: those at the end of pending' that pending
\* does not hold.  No step both issues and completes a request.
Issued ==
    IF Len(pending') > Len(pending)
    THEN { pending'[i] : i \in (Len(pending) + 1)..Len(pending') }
    ELSE {}

InFlight(urls) == { i \in 1..Len(pending) : pending[i].url \in urls }

\* The numeric form of each identifier of TelegramIds, written out.
NumericFormOfIdentifier ==
    IF telegramId = <<>> THEN Num(0)
    ELSE IF telegramId = <<"0", "7">> THEN Num(7)
    ELSE NaN

TheIssued == CHOOSE r \in Issued : TRUE

\* C1: a reset submission whose newPassword differs from confirmPassword, on
\* the code path or the old-password path, sets the mismatch error, issues no
\* request, leaves loading lowered and starts no navigation timer.
C1_MismatchBlocked ==
    [][ (handleResetPassword /\ newPassword # confirmPassword) =>
            /\ error' = t("forgotPassword.errors.mismatch")
            /\ Issued = {}
            /\ pending' = pending
            /\ ~loading'
            /\ navTimers' = navTimers
            /\ location' = location
      ]_vars

C1_Witness ==
    /\ Step = "SubmitNewPassword"
    /\ newPassword # confirmPassword
    /\ Len(newPassword) >= 6
    /\ error = t("forgotPassword.errors.mismatch")
    /\ pending = <<>>
    /\ ~loading
    /\ navTimers = 0

\* C2 as claimed: a reset submission whose newPassword is shorter than 6
\* characters sets the too-short error, whatever confirmPassword is, and
\* issues no request.
C2_TooShortWhateverConfirmation ==
    [][ (handleResetPassword /\ Len(newPassword) < 6) =>
            /\ error' = t("forgotPassword.errors.tooShort")
            /\ Issued = {}
      ]_vars

\* C2 as amended: a reset submission whose newPassword is shorter than 6
\* characters issues no request; the error is the too-short one when
\* confirmPassword equals newPassword and the mismatch one when it differs.
C2_TooShortBlocked ==
    [][ (handleResetPassword /\ Len(newPassword) < 6) =>
            /\ error' = IF newPassword = confirmPassword
                        THEN t("forgotPassword.errors.tooShort")
                        ELSE t("forgotPassword.errors.mismatch")
            /\ Issued = {}
            /\ pending' = pending
      ]_vars

C2_Witness ==
    /\ Step = "SubmitNewPassword"
    /\ Len(newPassword) = 5
    /\ newPassword = confirmPassword
    /\ error = t("forgotPassword.errors.tooShort")
    /\ pending = <<>>

\* C3: while useOldPassword is true neither the Choose Channel nor the
\* Request Code step is displayed, and no step taken with useOldPassword true
\* issues a call to /auth/forgot-password or /auth/reset-password.
C3_OldPathBypassesCodeFlow ==
    [][ /\ useOldPassword' => Step' \notin {"ChooseChannel", "RequestCode"}
        /\ useOldPassword =>
              \A r \in Issued :
                  r.url \notin {"/auth/forgot-password", "/auth/reset-password"}
      ]_vars

\* C4: when an options lookup resolves with exactly one of telegram and email
\* enabled, selectedMethod becomes that channel and the step displayed next
\* is not Choose Channel.
C4_SingleChannelAutoSelected ==
    [][ \A i \in 1..Len(pending), data \in OptionsResponses :
           (CheckOptionsResolve(i, data) /\ data.telegram # data.email) =>
               /\ selectedMethod' = IF data.telegram THEN "telegram" ELSE "email"
               /\ recoveryOptions' = data
               /\ Step' # "ChooseChannel"
      ]_vars

C4_Witness ==
    /\ recoveryOptions # NullObject
    /\ ~recoveryOptions.telegram
    /\ recoveryOptions.email
    /\ selectedMethod = "email"
    /\ Step = "RequestCode"
    /\ ~optionsLoading
    /\ pending = <<>>
    /\ error = ""

\* C5: a submission of the Identify step issues exactly one request, a POST
\* to /auth/recovery-options whose telegramId is the numeric form of the
\* identifier entered, and nothing else.
C5_IdentifyIssuesOneLookup ==
    [][ handleCheckOptions =>
            /\ Cardinality(Issued) = 1
            /\ Len(pending') = Len(pending) + 1
            /\ SubSeq(pending', 1, Len(pending)) = pending
            /\ TheIssued.url = "/auth/recovery-options"
            /\ TheIssued.data = [telegramId |-> NumericFormOfIdentifier]
      ]_vars

C5_Witness ==
    /\ Step = "Identify"
    /\ telegramId = <<"0", "7">>
    /\ optionsLoading
    /\ Len(pending) = 1
    /\ pending[1].url = "/auth/recovery-options"
    /\ pending[1].data = [telegramId |-> Num(7)]

\* C6: the navigation timer is started only by the step in which a reset
\* call resolves, and that step sets the success message; a blocked or failed
\* submission starts none; the navigation runs only off a started timer; and
\* every started timer leads to the navigation to the login view.
C6_NavigationOnlyAfterSuccess ==
    /\ [][ /\ navTimers' > navTimers =>
                /\ \E i \in InFlight(ResetUrls) :
                       /\ pending' = RemoveAt(pending, i)
                       /\ ResetResolve(i)
                /\ navTimers' = navTimers + 1
                /\ success' = t("forgotPassword.passwordReset")
           /\ (handleResetPassword \/ \E i \in 1..Len(pending), e \in ServerErrors :
                                          ResetReject(i, e))
                => navTimers' = navTimers
           /\ TimerFire => navTimers > 0
         ]_vars
    /\ (navTimers > 0) ~> (navTimers = 0 /\ location = "/login")

C6_Witness ==
    /\ navTimers > 0
    /\ success = t("forgotPassword.passwordReset")
    /\ location = "/forgot-password"
    /\ ~loading

\* C7: every request issued carries the header Authorization: Bearer <token>
\* for the token local storage holds at that step when one is held (a value
\* that is neither null nor empty), and no Authorization header otherwise:
\* the configuration as apiClient.post built it.
C7_BearerFromStorageAtRequest ==
    [][ \A r \in Issued :
           IF accessToken \in {Null, ""}
           THEN r.headers = NullObject
           ELSE r.headers = [Authorization |-> "Bearer " \o accessToken]
      ]_vars

\* A request issued while a token was stored, still in flight after the
\* token has been removed.
C7_Witness ==
    /\ accessToken = Null
    /\ \E i \in 1..Len(pending) :
           pending[i].headers = [Authorization |-> "Bearer tokA"]

\* C8: at most one options lookup is in flight, and optionsLoading is raised
\* while it is; at most one code request or password reset is in flight, and
\* loading is raised while it is.
C8_OneRequestPerAction ==
    /\ Cardinality(InFlight({"/auth/recovery-options"})) <= 1
    /\ Cardinality(InFlight({"/auth/forgot-password"})) <= 1
    /\ Cardinality(InFlight(ResetUrls)) <= 1
    /\ InFlight({"/auth/recovery-options"}) # {} => optionsLoading
    /\ InFlight({"/auth/forgot-password"}) # {} => loading
    /\ InFlight(ResetUrls) # {} => loading

\* A code request in flight while the Submit New Password step is displayed:
\* its submit button is disabled by the flag the code request raised.
C8_Witness ==
    /\ Step = "SubmitNewPassword"
    /\ InFlight({"/auth/forgot-password"}) # {}
    /\ InFlight({"/auth/recovery-options"}) # {}
    /\ loading
    /\ optionsLoading

\* C9: a rejected call sets error to the server's message when there is one
\* and to the generic reset-failed message otherwise, lowers the busy flag of
\* its handler, and leaves recoveryOptions, selectedMethod, codeSent and
\* useOldPassword, and so the step displayed, as they were.
C9_RejectionKeepsStep ==
    [][ \A i \in 1..Len(pending), e \in ServerErrors :
           (CheckOptionsReject(i, e) \/ RequestCodeReject(i, e) \/ ResetReject(i, e)) =>
               /\ error' = IF e \in {Null, ""}
                           THEN t("forgotPassword.errors.resetFailed")
                           ELSE e
               /\ IF pending[i].url = "/auth/recovery-options"
                  THEN ~optionsLoading'
                  ELSE ~loading'
               /\ UNCHANGED <<recoveryOptions, selectedMethod, codeSent,
                              useOldPassword>>
               /\ Step' = Step
      ]_vars

C9_Witness ==
    /\ Step = "RequestCode"
    /\ error = "Invalid code"
    /\ ~loading
    /\ ~codeSent
    /\ pending = <<>>

\* C10: a reset submission that passes validation issues exactly one request:
\* to /auth/reset-password-with-old with the identifier, oldPassword and
\* newPassword when useOldPassword is true, and to /auth/reset-password with
\* the identifier, code and newPassword when it is false.
C10_OneResetEndpoint ==
    [][ (handleResetPassword /\ newPassword = confirmPassword
                             /\ Len(newPassword) >= 6) =>
            /\ Cardinality(Issued) = 1
            /\ Len(pending') = Len(pending) + 1
            /\ SubSeq(pending', 1, Len(pending)) = pending
            /\ IF useOldPassword
               THEN /\ TheIssued.url = "/auth/reset-password-with-old"
                    /\ TheIssued.data =
                          [telegramId |-> NumericFormOfIdentifier,
                           oldPassword |-> oldPassword,
                           newPassword |-> newPassword]
               ELSE /\ TheIssued.url = "/auth/reset-password"
                    /\ TheIssued.data =
                          [telegramId |-> NumericFormOfIdentifier,
                           code |-> code,
                           newPassword |-> newPassword]
      ]_vars

C10_Witness ==
    /\ useOldPassword
    /\ loading
    /\ Len(pending) = 1
    /\ pending[1].url = "/auth/reset-password-with-old"
    /\ pending[1].data = [telegramId |-> Num(7), oldPassword |-> "hunter2",
                          newPassword |-> <<"a", "b", "c", "1", "2", "3">>]

\* C11: the cancel action of step 2 leaves recoveryOptions and selectedMethod
\* null, codeSent false, and code, error and success empty, and the Identify
\* step displayed.
C11_CancelReturnsToIdentify ==
    [][ resetState =>
            /\ recoveryOptions' = NullObject
            /\ selectedMethod' = Null
            /\ ~codeSent'
            /\ code' = ""
            /\ error' = ""
            /\ success' = ""
            /\ Step' = "Identify"
      ]_vars

\* C12: a code request that resolves sets codeSent and the success message of
\* the channel it was sent for, and the wizard, while mounted, then displays
\* Submit New Password; one that is rejected leaves codeSent as it was and
\* the wizard, while mounted, in Request Code with an error.
C12_CodeRequestOutcome ==
    [][ \A i \in 1..Len(pending) :
           /\ RequestCodeResolve(i) =>
                 /\ codeSent'
                 /\ success' = IF pending[i].data.method = "email"
                               THEN t("forgotPassword.codeSentEmail")
                               ELSE t("forgotPassword.codeSent")
                 /\ Step' \in {"SubmitNewPassword", "Unmounted"}
           /\ \A e \in ServerErrors :
                 RequestCodeReject(i, e) =>
                     /\ codeSent' = codeSent
                     /\ error' # ""
                     /\ Step' \in {"RequestCode", "Unmounted"}
      ]_vars

\* C13: the back action of step 4 on the code path lowers codeSent, clears
\* code and displays Request Code with recoveryOptions and selectedMethod as
\* they were; on the old-password path it lowers useOldPassword and clears
\* oldPassword; either way error and success are cleared and newPassword,
\* confirmPassword and telegramId are as they were.
C13_BackFrame ==
    [][ Back =>
            /\ IF useOldPassword
               THEN /\ ~useOldPassword'
                    /\ oldPassword' = ""
               ELSE /\ ~codeSent'
                    /\ code' = ""
                    /\ Step' = "RequestCode"
                    /\ UNCHANGED <<recoveryOptions, selectedMethod>>
            /\ error' = ""
            /\ success' = ""
            /\ UNCHANGED <<newPassword, confirmPassword, telegramId>>
      ]_vars

\* Back on the code path with the form filled in: Request Code is displayed,
\* the code is gone and the passwords are still there.
C13_Witness ==
    /\ Step = "RequestCode"
    /\ ~useOldPassword
    /\ ~codeSent
    /\ code = ""
    /\ oldPassword = ""
    /\ newPassword = <<"a", "b", "c", "1", "2", "3">>
    /\ confirmPassword = <<"a", "b", "c", "1", "2">>
    /\ error = ""
    /\ success = ""
    /\ pending = <<>>

\* C14: every /auth/forgot-password request carries the method 'telegram' or
\* 'email', and the flag of that method is true in recoveryOptions.
C14_OnlyAvailableChannel ==
    [][ \A r \in Issued :
           r.url = "/auth/forgot-password" =>
               /\ r.data.method \in {"telegram", "email"}
               /\ recoveryOptions # NullObject
               /\ IF r.data.method = "telegram"
                  THEN recoveryOptions.telegram
                  ELSE recoveryOptions.email
      ]_vars

\* C15: on the code path the Submit New Password step is opened only by the
\* success of a /auth/forgot-password request that was sent for the channel
\* now selected and the identifier now entered.
C15_SubmitStepOnlyForCurrentChannel ==
    [][ (Step # "SubmitNewPassword" /\ Step' = "SubmitNewPassword"
                                     /\ ~useOldPassword') =>
            \E i \in InFlight({"/auth/forgot-password"}) :
                /\ RequestCodeResolve(i)
                /\ pending[i].data.method = selectedMethod'
                /\ pending[i].data.telegramId = Number(telegramId')
      ]_vars

\* C16: loading is true exactly when a code request or a password reset is in
\* flight, and optionsLoading exactly when an options lookup is in flight.
C16_BusyFlagsMatchRequests ==
    /\ loading <=> InFlight({"/auth/forgot-password"} \cup ResetUrls) # {}
    /\ optionsLoading <=> InFlight({"/auth/recovery-options"}) # {}

\* A submission blocked by validation while an options lookup is in flight:
\* optionsLoading is raised, loading is not.
C16_Witness ==
    /\ Step = "SubmitNewPassword"
    /\ error = t("forgotPassword.errors.mismatch")
    /\ ~loading
    /\ optionsLoading
    /\ Len(pending) = 1
    /\ pending[1].url = "/auth/recovery-options"

\* C17: error and success are never both non-empty.
C17_ErrorXorSuccess ==
    ~(error # "" /\ success # "")

====
